---------------------------- MODULE Spec2Model ----------------------------
(***************************************************************************)
(* Token Merging (src/tome/merge.py): the three builders of a              *)
(* (merge, unmerge) operator pair, the operators themselves, and the two   *)
(* aggregation helpers merge_wavg and merge_source.                        *)
(*                                                                         *)
(* Conventions.                                                            *)
(*   - The batch dimension is 1 and is dropped: a tensor [1, t, c] is a    *)
(*     sequence of t rows, a row is a sequence of c numbers.               *)
(*   - Index tensors hold the 0-based indices the code holds; row i of a   *)
(*     tensor s is s[i + 1].                                               *)
(*   - Numbers of value tensors are exact rationals <<n, d>> in lowest     *)
(*     terms with d > 0 (floating point rounding is not modelled).         *)
(*   - Metric vectors are nonzero integer vectors with components in       *)
(*     -1..1, so that cosines can be ordered exactly.                      *)
(***************************************************************************)
EXTENDS Integers, Sequences, FiniteSets

\* ------------------------------------------------------------------ bounds
\* Largest number of tokens of an input sequence.
MaxTokens == 5
\* Largest number of tokens handed to the random builder (N! permutations).
MaxRandTokens == 3
\* Largest number of tokens a chain of layers starts from, and of layers.
MaxChainTokens == 4
MaxLayers == 2

\* ------------------------------------------------------------ small helpers
Min(a, b) == IF a <= b THEN a ELSE b
Abs(a) == IF a < 0 THEN -a ELSE a
Range(s) == {s[i] : i \in 1..Len(s)}

RECURSIVE GCD(_, _)
GCD(a, b) == IF b = 0 THEN a ELSE GCD(b, a % b)

RECURSIVE Pow2(_)
Pow2(n) == IF n = 0 THEN 1 ELSE 2 * Pow2(n - 1)

\* s[:k] and s[k:] of Python, for k >= 0.
Take(s, k) == SubSeq(s, 1, Min(k, Len(s)))
Drop(s, k) == SubSeq(s, Min(k, Len(s)) + 1, Len(s))

\* --------------------------------------------------------- exact rationals
Rat(n, d) ==
    LET g == GCD(Abs(n), Abs(d))
        s == IF d < 0 THEN -1 ELSE 1
    IN  <<(s * n) \div g, (s * d) \div g>>
RInt(n) == <<n, 1>>
RAdd(p, q) == Rat(p[1] * q[2] + q[1] * p[2], p[2] * q[2])
RMul(p, q) == Rat(p[1] * q[1], p[2] * q[2])
RDiv(p, q) == Rat(p[1] * q[2], p[2] * q[1])
RLess(p, q) == p[1] * q[2] < q[1] * p[2]
RMax(p, q) == IF RLess(p, q) THEN q ELSE p

\* Elementwise operations on rows of equal length.
RowAdd(u, v) == [c \in 1..Len(u) |-> RAdd(u[c], v[c])]
RowMax(u, v) == [c \in 1..Len(u) |-> RMax(u[c], v[c])]
RowDivInt(u, k) == [c \in 1..Len(u) |-> RDiv(u[c], RInt(k))]

\* ------------------------------------------------------- tensor primitives
\* x[..., ::2, :] and x[..., 1::2, :]
Even(x) == [j \in 1..((Len(x) + 1) \div 2) |-> x[2 * j - 1]]
Odd(x) == [j \in 1..(Len(x) \div 2) |-> x[2 * j]]

\* x.gather(dim=-2, index=idx.expand(...)): row j of the result is row idx[j] of x.
Gather(x, idx) == [j \in 1..Len(idx) |-> x[idx[j] + 1]]

RECURSIVE FoldRows(_, _, _, _)
\* Combine row `acc` with the rows src[j], j in js, by the row operation of `mode`.
FoldRows(acc, src, js, mode) ==
    IF js = {} THEN acc
    ELSE LET j == CHOOSE i \in js : \A i2 \in js : i <= i2
             nxt == IF mode = "amax" THEN RowMax(acc, src[j]) ELSE RowAdd(acc, src[j])
         IN  FoldRows(nxt, src, js \ {j}, mode)

\* dst.scatter_reduce(-2, idx.expand(...), src, reduce=mode), include_self=True:
\* row i of dst is combined with every src[j] whose idx[j] = i; "mean" divides the
\* sum (the row itself included) by 1 + the number of rows scattered into it.
ScatterReduce(dst, idx, src, mode) ==
    [i \in 1..Len(dst) |->
        LET js == {j \in 1..Len(idx) : idx[j] + 1 = i}
            acc == FoldRows(dst[i], src, js, mode)
        IN  IF mode = "mean" THEN RowDivInt(acc, 1 + Cardinality(js)) ELSE acc]

\* out.scatter_(dim=-2, index=idx, src=src): row idx[j] of out becomes src[j]
\* (the indices the code scatters with are distinct).
Scatter(out, idx, src) ==
    [i \in 1..Len(out) |->
        IF \E j \in 1..Len(idx) : idx[j] + 1 = i
        THEN src[CHOOSE j \in 1..Len(idx) : idx[j] + 1 = i]
        ELSE out[i]]

\* torch.zeros(1, t, c)
Zeros(t, c) == [i \in 1..t |-> [ch \in 1..c |-> RInt(0)]]

\* ------------------------------------------------------------ the metric
MetricVecs == {<<1, 0>>, <<1, 1>>, <<-1, 1>>}

Dot(u, v) == u[1] * v[1] + u[2] * v[2]

\* -math.inf: below every score.
NegInf == -5

\* (u / |u|) . (v / |v|), the cosine c of u and v, held as 4 * sgn(c) * c^2:
\* an exact, order-preserving integer code of c (|u|^2, |v|^2 are 1 or 2).
Score(u, v) ==
    LET d == Dot(u, v)
        sg == IF d < 0 THEN -1 ELSE 1
    IN  sg * ((4 * d * d) \div (Dot(u, u) * Dot(v, v)))

\* The permutations of 0..n-1, as sequences.
Perms(n) == {p \in [1..n -> 0..(n - 1)] : \A i, j \in 1..n : p[i] = p[j] => i = j}

\* t.sort(dim=1)[0] of a sequence of distinct indices: ascending.
SortAsc(s) ==
    CHOOSE q \in [1..Len(s) -> Range(s)] :
        /\ Range(q) = Range(s)
        /\ \A i, j \in 1..Len(s) : i < j => q[i] < q[j]

\* row.max(dim=-1): the maximum of a nonempty row and the index (0-based) of its
\* first occurrence.
MaxVal(row) == CHOOSE m \in Range(row) : \A v \in Range(row) : v <= m
MaxIdx(row) == (CHOOSE j \in 1..Len(row) :
                    /\ row[j] = MaxVal(row)
                    /\ \A j2 \in 1..(j - 1) : row[j2] # MaxVal(row)) - 1

\* v.argsort(dim=-1, descending=True): the sort is not stable, so every ordering
\* of the indices with non-increasing values is a possible result.
ArgsortDesc(v) ==
    {e \in Perms(Len(v)) : \A i \in 1..(Len(v) - 1) : v[e[i] + 1] >= v[e[i + 1] + 1]}

\* ------------------------------------------------------- operator pairs
\* What a builder returns: the tensors its merge and unmerge close over.
\* kind "do_nothing" is the pair (do_nothing, do_nothing); kind "raise" stands for
\* a builder that raised instead of returning.
Pair(kind, r, k, t, distill, unm, src, dst, a, b) ==
    [kind |-> kind, r |-> r, k |-> k, t |-> t, distill_token |-> distill,
     unm_idx |-> unm, src_idx |-> src, dst_idx |-> dst, a_idx |-> a, b_idx |-> b]
DoNothingPair == Pair("do_nothing", 0, 0, 0, FALSE, <<>>, <<>>, <<>>, <<>>, <<>>)
RaisePair == Pair("raise", 0, 0, 0, FALSE, <<>>, <<>>, <<>>, <<>>, <<>>)

\* do_nothing(x, mode=None)
do_nothing(x) == x

\* ------------------------------------------------ bipartite_soft_matching
Protected(class_token, distill_token) ==
    (IF class_token THEN 1 ELSE 0) + (IF distill_token THEN 1 ELSE 0)

\* Mutant of ClampR: the protected tokens are not taken off before halving.
ClampR_Unprotected(r, t, class_token, distill_token) == Min(r, t \div 2)

\* r = min(r, (t - protected) // 2)
ClampR(r, t, class_token, distill_token) ==
    Min(r, (t - Protected(class_token, distill_token)) \div 2)

\* Mutant of BipartiteScores: the class token's row is not set to -inf.
BipartiteScores_NoClassMask(metric, class_token, distill_token) ==
    LET a == Even(metric)
        b == Odd(metric)
    IN  [i \in 1..Len(a) |-> [j \in 1..Len(b) |->
            IF distill_token /\ j = 1 THEN NegInf ELSE Score(a[i], b[j])]]

\* scores = a @ b.transpose(-1, -2) of the normalized metric, a the even and b the
\* odd tokens, then row 0 (class token) and column 0 (distillation token) at -inf.
BipartiteScores(metric, class_token, distill_token) ==
    LET a == Even(metric)
        b == Odd(metric)
    IN  [i \in 1..Len(a) |-> [j \in 1..Len(b) |->
            IF (class_token /\ i = 1) \/ (distill_token /\ j = 1)
            THEN NegInf ELSE Score(a[i], b[j])]]

\* Mutant of SortUnmerged: the sort is skipped.
SortUnmerged_Skipped(unm_idx, class_token) == unm_idx

\* if class_token: unm_idx = unm_idx.sort(dim=1)[0]
SortUnmerged(unm_idx, class_token) ==
    IF class_token THEN SortAsc(unm_idx) ELSE unm_idx

\* The pair built from one result edge_idx of the argsort.
BipartitePair(metric, r, class_token, distill_token, edge_idx) ==
    LET scores == BipartiteScores(metric, class_token, distill_token)
        node_idx == [i \in 1..Len(scores) |-> MaxIdx(scores[i])]
        src_idx == Take(edge_idx, r)
    IN  Pair("bipartite", r, 0, Len(metric), distill_token,
             SortUnmerged(Drop(edge_idx, r), class_token),
             src_idx, Gather(node_idx, src_idx), <<>>, <<>>)

\* Every pair bipartite_soft_matching(metric, r, class_token, distill_token) can
\* return (one per possible result of the argsort).
bipartite_soft_matching(metric, r, class_token, distill_token) ==
    LET rc == ClampR(r, Len(metric), class_token, distill_token)
    IN  IF rc <= 0 THEN {DoNothingPair}
        ELSE LET scores == BipartiteScores(metric, class_token, distill_token)
                 node_max == [i \in 1..Len(scores) |-> MaxVal(scores[i])]
             IN  {BipartitePair(metric, rc, class_token, distill_token, e) :
                     e \in ArgsortDesc(node_max)}

\* merge of bipartite_soft_matching
BipartiteMerge(p, x, mode) ==
    LET src == Even(x)
        dst == Odd(x)
        unm == Gather(src, p.unm_idx)
        srcm == Gather(src, p.src_idx)
        dstm == ScatterReduce(dst, p.dst_idx, srcm, mode)
    IN  IF p.distill_token
        THEN Take(unm, 1) \o Take(dstm, 1) \o Drop(unm, 1) \o Drop(dstm, 1)
        ELSE unm \o dstm

\* unmerge of bipartite_soft_matching
BipartiteUnmerge(p, x) ==
    LET unm_len == Len(p.unm_idx)
        unm == Take(x, unm_len)
        dst == Drop(x, unm_len)
        src == Gather(dst, p.dst_idx)
        zero == Zeros(p.t, Len(x[1]))
        out1 == [i \in 1..p.t |-> IF i % 2 = 0 THEN dst[i \div 2] ELSE zero[i]]
        out2 == Scatter(out1, [j \in 1..unm_len |-> 2 * p.unm_idx[j]], unm)
    IN  Scatter(out2, [j \in 1..Len(p.src_idx) |-> 2 * p.src_idx[j]], src)

\* -------------------------------------------- kth_bipartite_soft_matching
\* Mutant of KthSplitA: the sequence is not truncated to a multiple of k, so the
\* trailing tokens are sources too.
KthSplitA_NoTruncate(x, k) ==
    [j \in 1..(Len(x) - Len(x) \div k) |->
        x[((j - 1) \div (k - 1)) * k + ((j - 1) % (k - 1)) + 1]]

\* split(x), first result: the first k-1 rows of every group of k, flattened.
KthSplitA(x, k) ==
    [j \in 1..((Len(x) \div k) * (k - 1)) |->
        x[((j - 1) \div (k - 1)) * k + ((j - 1) % (k - 1)) + 1]]
\* split(x), second result: the k-th row of every group of k.
KthSplitB(x, k) == [g \in 1..(Len(x) \div k) |-> x[g * k]]

\* x[:, :t_rnd, :].view(x.shape[0], -1, k, x.shape[2]) of split raises when
\* t_rnd = 0: a tensor of 0 elements leaves the -1 dimension ambiguous.
KthSplitRaises(t, k) == (t \div k) * k = 0

\* Mutant of KthScores: the metric is not normalized.
KthScores_Unnormalized(metric, k) ==
    [i \in 1..((Len(metric) \div k) * (k - 1)) |-> [j \in 1..(Len(metric) \div k) |->
        Dot(metric[((i - 1) \div (k - 1)) * k + ((i - 1) % (k - 1)) + 1], metric[j * k])]]

\* scores = a @ b.transpose(-1, -2) of the normalized metric.
KthScores(metric, k) ==
    LET a == KthSplitA(metric, k)
        b == KthSplitB(metric, k)
    IN  [i \in 1..Len(a) |-> [j \in 1..Len(b) |-> Score(a[i], b[j])]]

\* kth_bipartite_soft_matching(metric, k)
kth_bipartite_soft_matching(metric, k) ==
    IF k <= 1 THEN DoNothingPair
    ELSE IF KthSplitRaises(Len(metric), k) THEN RaisePair
    ELSE LET scores == KthScores(metric, k)
         IN  Pair("kth", Len(scores), k, Len(metric), FALSE, <<>>, <<>>,
                  [i \in 1..Len(scores) |-> MaxIdx(scores[i])], <<>>, <<>>)

\* merge of kth_bipartite_soft_matching
KthMerge(p, x, mode) ==
    ScatterReduce(KthSplitB(x, p.k), p.dst_idx, KthSplitA(x, p.k), mode)

\* unmerge of kth_bipartite_soft_matching: per group the k-1 gathered rows, then
\* the destination row.
KthUnmerge(p, x) ==
    LET src == Gather(x, p.dst_idx)
    IN  [i \in 1..(Len(x) * p.k) |->
            LET g == (i - 1) \div p.k
                j == (i - 1) % p.k
            IN  IF j = p.k - 1 THEN x[g + 1] ELSE src[g * (p.k - 1) + j + 1]]

\* ----------------------------------------- random_bipartite_soft_matching
\* With r > N, a_idx has N rows and a_idx.expand(B, r, C) raises (with N = 1 the
\* expand passes and the max over the empty b side raises); with r = N the b side
\* is empty and scores.max(dim=-1) raises.
RandomRaises(t, r) == r >= t

\* scores = a @ b.transpose(-1, -2) of the normalized metric.
RandomScores(metric, a_idx, b_idx) ==
    LET a == Gather(metric, a_idx)
        b == Gather(metric, b_idx)
    IN  [i \in 1..Len(a) |-> [j \in 1..Len(b) |-> Score(a[i], b[j])]]

\* The pair built from one drawn permutation rand_idx.
RandomPair(metric, r, rand_idx) ==
    LET a_idx == Take(rand_idx, r)
        b_idx == Drop(rand_idx, r)
        scores == RandomScores(metric, a_idx, b_idx)
    IN  Pair("random", r, 0, Len(metric), FALSE, <<>>, <<>>,
             [i \in 1..Len(scores) |-> MaxIdx(scores[i])], a_idx, b_idx)

\* Every pair random_bipartite_soft_matching(metric, r) can return
\* (rand_idx = torch.rand(B, N, 1).argsort(dim=1) is any permutation).
random_bipartite_soft_matching(metric, r) ==
    IF r <= 0 THEN {DoNothingPair}
    ELSE IF RandomRaises(Len(metric), r) THEN {RaisePair}
    ELSE {RandomPair(metric, r, rand_idx) : rand_idx \in Perms(Len(metric))}

\* merge of random_bipartite_soft_matching
RandomMerge(p, x, mode) ==
    ScatterReduce(Gather(x, p.b_idx), p.dst_idx, Gather(x, p.a_idx), mode)

\* unmerge of random_bipartite_soft_matching
RandomUnmerge(p, x) ==
    LET src == Gather(x, p.dst_idx)
        out1 == Scatter(Zeros(p.t, Len(x[1])), p.a_idx, src)
    IN  Scatter(out1, p.b_idx, x)

\* ------------------------------------------------ applying a returned pair
\* merge(x, mode) and unmerge(x) of the pair p.
Merge(p, x, mode) ==
    CASE p.kind = "do_nothing" -> do_nothing(x)
      [] p.kind = "bipartite" -> BipartiteMerge(p, x, mode)
      [] p.kind = "kth" -> KthMerge(p, x, mode)
      [] p.kind = "random" -> RandomMerge(p, x, mode)
Unmerge(p, x) ==
    CASE p.kind = "do_nothing" -> do_nothing(x)
      [] p.kind = "bipartite" -> BipartiteUnmerge(p, x)
      [] p.kind = "kth" -> KthUnmerge(p, x)
      [] p.kind = "random" -> RandomUnmerge(p, x)

\* ------------------------------------------------------------------ inputs
Modes == {"sum", "mean", "amax"}

\* Value tensors of t tokens with one channel: the tokens 1, 2, 4, ... (every set
\* of tokens has its own sum) and the tokens t, t-1, ..., 1.
XPow(t) == [i \in 1..t |-> <<RInt(Pow2(i - 1))>>]
XDesc(t) == [i \in 1..t |-> <<RInt(t + 1 - i)>>]
XInputs(t) == {XPow(t), XDesc(t)}

\* --------------------------------------------------------------- one layer
\* A caller builds one pair for a metric, merges a value tensor with it and
\* unmerges the result.
VARIABLES metric, x, req, pair, pc, mode, merged, unmerged
\* The state a caller threads through the layers of a chain (see SpecChain).
VARIABLES x0, size, source, where, layer

chain == <<x0, size, source, where, layer>>
vars == <<metric, x, req, pair, pc, mode, merged, unmerged, chain>>

\* size=None, source=None
None == <<>>

Request(strategy, r, k, class_token, distill_token) ==
    [strategy |-> strategy, r |-> r, k |-> k,
     class_token |-> class_token, distill_token |-> distill_token]

Init ==
    /\ \E t \in 1..MaxTokens :
          /\ metric \in [1..t -> MetricVecs]
          /\ x \in XInputs(t)
    /\ req = Request("none", 0, 0, FALSE, FALSE)
    /\ pair = DoNothingPair
    /\ pc = "input"
    /\ mode = "none"
    /\ merged = <<>>
    /\ unmerged = <<>>
    /\ x0 = x /\ size = None /\ source = None /\ where = <<>> /\ layer = 0

BuildBipartite(r, class_token, distill_token) ==
    /\ pc = "input"
    /\ req' = Request("bipartite", r, 0, class_token, distill_token)
    /\ pair' \in bipartite_soft_matching(metric, r, class_token, distill_token)
    /\ pc' = "built"
    /\ UNCHANGED <<metric, x, mode, merged, unmerged, chain>>

BuildKth(k) ==
    /\ pc = "input"
    /\ req' = Request("kth", 0, k, FALSE, FALSE)
    /\ pair' = kth_bipartite_soft_matching(metric, k)
    /\ pc' = IF pair'.kind = "raise" THEN "raised" ELSE "built"
    /\ UNCHANGED <<metric, x, mode, merged, unmerged, chain>>

BuildRandom(r) ==
    /\ pc = "input"
    /\ Len(metric) <= MaxRandTokens
    /\ req' = Request("random", r, 0, FALSE, FALSE)
    /\ pair' \in random_bipartite_soft_matching(metric, r)
    /\ pc' = IF pair'.kind = "raise" THEN "raised" ELSE "built"
    /\ UNCHANGED <<metric, x, mode, merged, unmerged, chain>>

DoMerge(m) ==
    /\ pc = "built"
    /\ mode' = m
    /\ merged' = Merge(pair, x, m)
    /\ pc' = "merged"
    /\ UNCHANGED <<metric, x, req, pair, unmerged, chain>>

DoUnmerge ==
    /\ pc = "merged"
    /\ unmerged' = Unmerge(pair, merged)
    /\ pc' = "unmerged"
    /\ UNCHANGED <<metric, x, req, pair, mode, merged, chain>>

Next ==
    \/ \E r \in -1..(Len(metric) \div 2 + 1), c, d \in BOOLEAN : BuildBipartite(r, c, d)
    \/ \E k \in 0..(Len(metric) + 1) : BuildKth(k)
    \/ \E r \in -1..(Len(metric) + 1) : BuildRandom(r)
    \/ \E m \in Modes : DoMerge(m)
    \/ DoUnmerge

Spec == Init /\ [][Next]_vars

\* ----------------------------------------------- stating the laws: helpers
\* The number of tokens of the input.
N == Len(metric)

\* The matching a pair stands for, told directly from its index tensors: the
\* position (0-based) of the token that the token at position p0 is folded into;
\* p0 itself for a token that is kept or is a destination, -1 for a token the
\* k-ary split drops.
DestOf(p, p0) ==
    CASE p.kind = "do_nothing" -> p0
      [] p.kind = "bipartite" ->
            IF p0 % 2 = 0 /\ \E j \in 1..Len(p.src_idx) : p.src_idx[j] = p0 \div 2
            THEN 2 * p.dst_idx[CHOOSE j \in 1..Len(p.src_idx) :
                                   p.src_idx[j] = p0 \div 2] + 1
            ELSE p0
      [] p.kind = "random" ->
            IF \E j \in 1..Len(p.a_idx) : p.a_idx[j] = p0
            THEN p.b_idx[p.dst_idx[CHOOSE j \in 1..Len(p.a_idx) : p.a_idx[j] = p0] + 1]
            ELSE p0
      [] p.kind = "kth" ->
            IF p0 >= (p.t \div p.k) * p.k THEN -1
            ELSE IF p0 % p.k = p.k - 1 THEN p0
            ELSE p.dst_idx[(p0 \div p.k) * (p.k - 1) + (p0 % p.k) + 1] * p.k + p.k - 1

\* The tokens (0-based positions below t) fused with the token at q0, itself included.
GroupOf(p, q0, t) == {p0 \in 0..(t - 1) : DestOf(p, p0) = DestOf(p, q0)}

RECURSIVE SumOver(_, _)
\* The sum of the one-channel rows xx[p0 + 1], p0 in S.
SumOver(xx, S) ==
    IF S = {} THEN RInt(0)
    ELSE LET p0 == CHOOSE q \in S : TRUE
         IN  RAdd(xx[p0 + 1][1], SumOver(xx, S \ {p0}))

\* The plain average of the one-channel rows xx[p0 + 1], p0 in S.
MeanOver(xx, S) == <<RDiv(SumOver(xx, S), RInt(Cardinality(S)))>>

\* Whether the sum `row` of some of the tokens 1, 2, 4, ... holds the token at p0.
Holds(row, p0) == (row[1][1] \div Pow2(p0)) % 2 = 1

\* The row of the merge output (of XPow under "sum") that holds the token at p0.
RowOf(p0) == CHOOSE j \in 1..Len(merged) : Holds(merged[j], p0)

IsBipartite == req.strategy = "bipartite"
Built == pc \in {"built", "merged", "unmerged"}

\* ------------------------------------------------------------------- C1
\* C1 as stated: for every requested r with 0 <= r <= N/2 and every flag
\* combination, the bipartite merge outputs exactly N - r rows, and for r = 0 the
\* output equals the input.
C1_RowsAsRequested ==
    (pc = "merged" /\ IsBipartite /\ 0 <= req.r /\ 2 * req.r <= N)
        => /\ Len(merged) = N - req.r
           /\ req.r = 0 => merged = x

\* C1 amended: for every requested r with 0 <= r <= N/2 and every flag combination,
\* the bipartite merge outputs exactly N - r' rows, where r' is r clamped to
\* floor((N - protected) / 2) and to no less than 0; for r = 0 the output equals
\* the input.
C1_RowsAsClamped ==
    (pc = "merged" /\ IsBipartite /\ 0 <= req.r /\ 2 * req.r <= N)
        => LET prot == (IF req.class_token THEN 1 ELSE 0)
                       + (IF req.distill_token THEN 1 ELSE 0)
               half == (N - prot) \div 2
               rc == IF half < 0 THEN 0 ELSE IF req.r <= half THEN req.r ELSE half
           IN  /\ Len(merged) = N - rc
               /\ req.r = 0 => merged = x

\* A request within N/2 that the protected tokens clamp: N = 4, r = 2, class token.
C1_Witness ==
    /\ pc = "merged" /\ IsBipartite /\ N = 4 /\ req.r = 2
    /\ req.class_token /\ ~req.distill_token
    /\ pair.kind = "bipartite" /\ Len(merged) = 3

\* ------------------------------------------------------------------- C2
\* C2: round trip. For the bipartite strategy (every r, every flag combination) and
\* the random strategy (0 < r < N), unmerge(merge(x, "mean")) has N rows and holds at
\* every position the mean of the group of tokens fused with the token of that
\* position: the original value for a token that neither merged nor received a
\* merge, the fused mean at a merged source and at its destination.
C2_RoundTrip ==
    (pc = "unmerged" /\ mode = "mean" /\ req.strategy \in {"bipartite", "random"})
        => /\ Len(unmerged) = N
           /\ \A p0 \in 0..(N - 1) :
                 unmerged[p0 + 1] = MeanOver(x, GroupOf(pair, p0, N))

\* ------------------------------------------------------------------- C3
\* C3: with class_token, position 0 (index 0 of the even set) is never in src_idx,
\* and row 0 of the merge output is row 0 of the input.
C3_ClassTokenKept ==
    (Built /\ IsBipartite /\ req.class_token)
        => /\ \A j \in 1..Len(pair.src_idx) : pair.src_idx[j] # 0
           /\ pc \in {"merged", "unmerged"} => merged[1] = x[1]

\* A merge with a class token that removes a token and keeps two or more.
C3_Witness ==
    /\ pc = "merged" /\ IsBipartite /\ req.class_token
    /\ pair.kind = "bipartite" /\ pair.r >= 1 /\ Len(pair.unm_idx) >= 2
    /\ merged[1] = x[1]

\* ------------------------------------------------------------------- C4
\* C4: with distill_token and a non-identity pair, no selected source has
\* dst_idx = 0, and the distillation token (row 1 of the input and of the output)
\* is unchanged by merge.
C4_DistillTokenNoDestination ==
    (Built /\ IsBipartite /\ req.distill_token /\ pair.kind = "bipartite")
        => /\ \A j \in 1..Len(pair.dst_idx) : pair.dst_idx[j] # 0
           /\ pc \in {"merged", "unmerged"} => merged[2] = x[2]

\* ------------------------------------------------------------------- C7
\* C7: no builder raises, whatever its integer reduction argument; an invalid or
\* zero reduction count gives the identity pair.
C7_NeverRaises ==
    /\ pc # "raised"
    /\ Built =>
          /\ pair.kind # "raise"
          /\ (IsBipartite /\ req.r <= 0) => pair.kind = "do_nothing"
          /\ (req.strategy = "kth" /\ (req.k <= 1 \/ req.k > N)) => pair.kind = "do_nothing"
          /\ (req.strategy = "random" /\ (req.r <= 0 \/ req.r >= N))
                => pair.kind = "do_nothing"

\* ------------------------------------------------------------------- C8
\* A metric of t equal tokens.
UniformMetric(t) == [i \in 1..t |-> <<1, 0>>]

\* C8: for the k-ary strategy with 2 <= k <= N, merge outputs floor(N/k) rows
\* (N = 10 and N = 12 with k = 5 give 2), no output row holds any of the trailing
\* N mod k tokens, and unmerge outputs k * floor(N/k) rows: per group of k, the
\* k-th holds the group's destination row and each of the other k-1 holds the row
\* of the destination its source token was matched to.
\* (the two worked examples are evaluated wherever the builder was called with k = 5)
C8_KthShape ==
    /\ (req.strategy = "kth" /\ req.k = 5)
         => \A t \in {10, 12} :
               Len(KthMerge(kth_bipartite_soft_matching(UniformMetric(t), 5), XPow(t), "sum")) = 2
    /\ (req.strategy = "kth" /\ 2 <= req.k /\ req.k <= N /\ pc \in {"merged", "unmerged"})
         => LET k == req.k
                G == N \div k
            IN  /\ Len(merged) = G
                /\ (x = XPow(N) /\ mode = "sum")
                     => \A p0 \in (G * k)..(N - 1), j \in 1..G : ~Holds(merged[j], p0)
                /\ pc = "unmerged"
                     => /\ Len(unmerged) = k * G
                        /\ \A g \in 0..(G - 1) :
                              /\ unmerged[g * k + k] = merged[g + 1]
                              /\ \A j \in 0..(k - 2) :
                                    unmerged[g * k + j + 1]
                                        = merged[(DestOf(pair, g * k + j) + 1) \div k]

\* A k-ary round trip that drops trailing tokens and has two groups.
C8_Witness ==
    /\ pc = "unmerged" /\ req.strategy = "kth" /\ req.k = 2 /\ N = 5
    /\ x = XPow(N) /\ mode = "sum"
    /\ Len(merged) = 2 /\ Len(unmerged) = 4
    /\ pair.dst_idx = <<1, 0>>

KeptSources == {p0 \in 0..(N - 1) : p0 % 2 = 0 /\ DestOf(pair, p0) = p0}

\* C10 as stated: for every r and every flag combination, two kept source-set
\* tokens at input positions p < q appear in the merge output in that order.
C10_KeptOrder ==
    (pc = "merged" /\ IsBipartite /\ x = XPow(N) /\ mode = "sum")
        => \A p0, q0 \in KeptSources : p0 < q0 => RowOf(p0) < RowOf(q0)

\* C10 amended: with class_token, for every r and either value of distill_token,
\* two kept source-set tokens at input positions p < q appear in the merge output
\* in that order.
C10_KeptOrderClassToken ==
    (pc = "merged" /\ IsBipartite /\ req.class_token /\ x = XPow(N) /\ mode = "sum")
        => \A p0, q0 \in KeptSources : p0 < q0 => RowOf(p0) < RowOf(q0)

\* A merge with a class token and a distillation token that removes the middle
\* source token and keeps the two around it.
C10_Witness ==
    /\ pc = "merged" /\ IsBipartite /\ req.class_token /\ req.distill_token
    /\ x = XPow(N) /\ mode = "sum"
    /\ pair.kind = "bipartite" /\ pair.src_idx = <<1>> /\ KeptSources = {0, 4}
    /\ RowOf(0) = 1 /\ RowOf(4) = 3

\* ------------------------------------------------------ aggregation helpers
\* torch.ones_like(x[..., 0, None])
Ones(t) == [i \in 1..t |-> <<RInt(1)>>]
\* torch.eye(t)
Eye(t) == [i \in 1..t |-> [c \in 1..t |-> RInt(IF i = c THEN 1 ELSE 0)]]

\* Mutant of merge_wavg: the values are not weighted by their sizes before the sum.
merge_wavg_unweighted(p, xx, sz) ==
    LET sz1 == IF sz = None THEN Ones(Len(xx)) ELSE sz
        xm == Merge(p, xx, "sum")
        sm == Merge(p, sz1, "sum")
    IN  <<[i \in 1..Len(xm) |-> [c \in 1..Len(xm[i]) |-> RDiv(xm[i][c], sm[i][1])]], sm>>

\* merge_wavg(merge, x, size): <<x, size>> as returned.
merge_wavg(p, xx, sz) ==
    LET sz1 == IF sz = None THEN Ones(Len(xx)) ELSE sz
        xs == [i \in 1..Len(xx) |-> [c \in 1..Len(xx[i]) |-> RMul(xx[i][c], sz1[i][1])]]
        xm == Merge(p, xs, "sum")
        sm == Merge(p, sz1, "sum")
    IN  <<[i \in 1..Len(xm) |-> [c \in 1..Len(xm[i]) |-> RDiv(xm[i][c], sm[i][1])]], sm>>

\* Mutant of merge_source: the source handed in is ignored.
merge_source_fresh(p, xx, src) == Merge(p, Eye(Len(xx)), "amax")

\* merge_source(merge, x, source)
merge_source(p, xx, src) ==
    LET src1 == IF src = None THEN Eye(Len(xx)) ELSE src
    IN  Merge(p, src1, "amax")

\* ------------------------------------------------------------------ chains
\* A caller merges layer after layer: each layer builds a fresh pair for the
\* current sequence (its metric is any tensor of the current length) and threads
\* the size and the source of merge_wavg and merge_source forward.

\* The naive bookkeeping the laws are told against: the row (0-based) of the merge
\* output that the kept or destination token at position q0 becomes.
OutRow(p, q0) ==
    CASE p.kind = "do_nothing" -> q0
      [] p.kind = "bipartite" ->
            IF q0 % 2 = 0
            THEN LET j == CHOOSE i \in 1..Len(p.unm_idx) : p.unm_idx[i] = q0 \div 2
                 IN  IF p.distill_token /\ j >= 2 THEN j ELSE j - 1
            ELSE LET d == (q0 - 1) \div 2
                 IN  IF p.distill_token /\ d = 0 THEN Min(1, Len(p.unm_idx))
                     ELSE Len(p.unm_idx) + d
      [] p.kind = "random" -> (CHOOSE i \in 1..Len(p.b_idx) : p.b_idx[i] = q0) - 1
      [] p.kind = "kth" -> (q0 + 1) \div p.k - 1

\* The row of the merge output that holds the token at position p0 (-1: dropped).
NewRow(p, p0) ==
    IF p0 = -1 \/ DestOf(p, p0) = -1 THEN -1 ELSE OutRow(p, DestOf(p, p0))

ChainInit ==
    /\ \E t \in 1..MaxChainTokens : x0 \in XInputs(t)
    /\ x = x0
    /\ size = None
    /\ source = None
    /\ where = [o \in 1..Len(x0) |-> o - 1]
    /\ layer = 0
    /\ metric = <<>>
    /\ req = Request("none", 0, 0, FALSE, FALSE)
    /\ pair = DoNothingPair
    /\ pc = "chain"
    /\ mode = "none"
    /\ merged = <<>>
    /\ unmerged = <<>>

\* The caller builds the pair of the next layer for a metric m of the current
\* length; a builder that raises ends the chain.
CanBuild == pc = "chain" /\ layer < MaxLayers

ChainBuild(strategy, p) ==
    /\ p.kind # "raise"
    /\ pair' = p
    /\ req' = [req EXCEPT !.strategy = strategy]
    /\ pc' = "chain_built"
    /\ UNCHANGED <<metric, x, mode, merged, unmerged, chain>>

ChainBuildBipartite(m, r, class_token, distill_token) ==
    /\ CanBuild
    /\ \E p \in bipartite_soft_matching(m, r, class_token, distill_token) :
          ChainBuild("bipartite", p)

ChainBuildKth(m, k) ==
    /\ CanBuild
    /\ ChainBuild("kth", kth_bipartite_soft_matching(m, k))

ChainBuildRandom(m, r) ==
    /\ CanBuild
    /\ Len(m) <= MaxRandTokens
    /\ \E p \in random_bipartite_soft_matching(m, r) : ChainBuild("random", p)

\* The layer itself: x, size = merge_wavg(merge, x, size) and
\* source = merge_source(merge, x, source), with the merge of the pair just built.
ChainMerge ==
    /\ pc = "chain_built"
    /\ x' = merge_wavg(pair, x, size)[1]
    /\ size' = merge_wavg(pair, x, size)[2]
    /\ source' = merge_source(pair, x, source)
    /\ where' = [o \in 1..Len(x0) |-> NewRow(pair, where[o])]
    /\ layer' = layer + 1
    /\ pc' = "chain"
    /\ UNCHANGED <<metric, req, pair, mode, merged, unmerged, x0>>

ChainNext ==
    \/ \E m \in [1..Len(x) -> MetricVecs], r \in 0..(Len(x) \div 2), c, d \in BOOLEAN :
          ChainBuildBipartite(m, r, c, d)
    \/ \E m \in [1..Len(x) -> MetricVecs], k \in 1..Len(x) : ChainBuildKth(m, k)
    \/ \E m \in [1..Len(x) -> MetricVecs], r \in 0..(Len(x) - 1) : ChainBuildRandom(m, r)
    \/ ChainMerge

SpecChain == ChainInit /\ [][ChainNext]_vars

\* The original tokens (0-based) folded into row j (1-based) of the current sequence.
Folded(j) == {o - 1 : o \in {i \in 1..Len(x0) : where[i] = j - 1}}

\* ------------------------------------------------------------------- C5
\* C5: after any chain of merge_wavg calls (size=None first, the returned size
\* threaded forward), the size of every token is the number of original tokens
\* folded into it and its value is the plain average of those tokens' values.
C5_RunningAverage ==
    (pc = "chain" /\ layer >= 1) =>
        /\ Len(size) = Len(x)
        /\ \A j \in 1..Len(x) :
              /\ size[j] = <<RInt(Cardinality(Folded(j)))>>
              /\ x[j] = MeanOver(x0, Folded(j))

\* Four tokens, one merged away by the first layer and one by the second (a
\* bipartite layer with r = 1), the second into the token the first had fused: a
\* token of size 3 that averages a token of size 2 and a token of size 1.
C5_Witness ==
    /\ pc = "chain" /\ layer = 2
    /\ Len(x0) = 4 /\ Len(x) = 2
    /\ pair.kind = "bipartite" /\ pair.r = 1
    /\ \E j \in 1..Len(x) : size[j] = <<RInt(3)>> /\ x[j] = MeanOver(x0, Folded(j))

\* ------------------------------------------------------------------- C6
\* C6: after any chain of merge_source calls (source=None first, the returned
\* source threaded forward), the source row of every token is nonzero at exactly
\* the original tokens folded into it.
C6_Provenance ==
    (pc = "chain" /\ layer >= 1) =>
        /\ Len(source) = Len(x)
        /\ \A j \in 1..Len(source) :
              /\ Len(source[j]) = Len(x0)
              /\ \A o \in 1..Len(x0) : (source[j][o] # RInt(0)) <=> (o - 1 \in Folded(j))

\* Four tokens, one merged away by each of two layers, the second (a random layer
\* with r = 1) into the token the first had fused: a source row that marks three
\* original tokens.
C6_Witness ==
    /\ pc = "chain" /\ layer = 2
    /\ Len(x0) = 4 /\ Len(source) = 2
    /\ pair.kind = "random" /\ pair.r = 1
    /\ \E j \in 1..Len(source) :
          Cardinality({o \in 1..Len(x0) : source[j][o] # RInt(0)}) = 3

==========================================================================
